---- MODULE Spec2Model ----
(***************************************************************************)
(* WGSL::Metal::FunctionDefinitionWriter and emitMetalFunctions.           *)
(*                                                                         *)
(* The writer is a visitor over a WGSL AST that appends Metal source text  *)
(* to a StringBuilder.  Text is modelled as a sequence of one-character    *)
(* strings, so that two outputs are equal exactly when the emitted bytes   *)
(* are equal.  An AST node is a record whose kind field is the node kind.  *)
(* A visit method is an operator from (node, writer) to the writer after   *)
(* the call, the writer being [out, indent, fatal]: the text appended to   *)
(* m_stringBuilder so far, the level of m_indent, and whether an assertion *)
(* has ended the process.                                                  *)
(*                                                                         *)
(* Float literals are left out of the input domain: their text is made by  *)
(* WTF's number formatting, which no property below is about.              *)
(***************************************************************************)
EXTENDS Integers, Sequences, FiniteSets, TLC

VARIABLES
    node,             \* the AST node the call is made on
    m_stringBuilder,  \* the output buffer
    m_indent,         \* the indentation level of the writer
    pc,               \* "entry" | "returned" | "aborted"
    entryPoints,      \* the record emitMetalFunctions returned, or None
    entry             \* [out, indent]: buffer and level when the call was made

vars == <<node, m_stringBuilder, m_indent, pc, entryPoints, entry>>

(***************************************************************************)
(* Bounds of the input domain.                                             *)
(***************************************************************************)
MaxArgs == 2      \* arguments of a call
MaxNest == 2      \* calls nested in the arguments of a call
MaxIndent == 2    \* indentation level at which an expression is visited
MaxAttrs == 2     \* attributes of a function, a parameter or a member
MaxParams == 2    \* parameters of a function
MaxStmts == 2     \* statements of a compound statement
MaxMembers == 2   \* members of a struct
MaxDecls == 2     \* top-level declarations of a module

IndentWidth == 4  \* Indentation<4>

None == [kind |-> "None"]

(***************************************************************************)
(* StringBuilder, Indentation, IndentationScope and the assertion macros.  *)
(***************************************************************************)
NewWriter(out, indent) == [out |-> out, indent |-> indent, fatal |-> FALSE]

\* m_stringBuilder.append(text); nothing runs after the process has ended.
append(w, text) == IF w.fatal THEN w ELSE [w EXCEPT !.out = @ \o text]

\* The text of an Indentation<4> at the given level.
Indentation(level) == [i \in 1..(IndentWidth * level) |-> " "]

\* m_stringBuilder.append(m_indent)
appendIndent(w) == append(w, Indentation(w.indent))

\* IndentationScope scope(m_indent): the constructor and the destructor.
IndentationScopeEnter(w) == IF w.fatal THEN w ELSE [w EXCEPT !.indent = @ + 1]
IndentationScopeExit(w) == IF w.fatal THEN w ELSE [w EXCEPT !.indent = @ - 1]

\* ASSERT(condition): a failed assertion ends the process.
ASSERT(w, condition) == IF w.fatal \/ condition THEN w ELSE [w EXCEPT !.fatal = TRUE]

ASSERT_NOT_REACHED(w) == ASSERT(w, FALSE)

(***************************************************************************)
(* Number to text, as StringBuilder::append(int) writes it.                *)
(***************************************************************************)
DigitChar(d) == <<"0", "1", "2", "3", "4", "5", "6", "7", "8", "9">>[d + 1]

RECURSIVE UnsignedDecimal(_)
UnsignedDecimal(n) ==
    IF n < 10 THEN <<DigitChar(n)>>
    ELSE Append(UnsignedDecimal(n \div 10), DigitChar(n % 10))

Decimal(n) == IF n < 0 THEN <<"-">> \o UnsignedDecimal(-n) ELSE UnsignedDecimal(n)

(***************************************************************************)
(* The visit methods.                                                      *)
(***************************************************************************)
RECURSIVE visitTypeDecl(_, _)
RECURSIVE visitExpression(_, _)
RECURSIVE visitStatement(_, _)

\* ---- attributes ---------------------------------------------------------

visitBuiltinAttribute_Dropped(builtin, w) ==
    IF builtin.name = <<"v","e","r","t","e","x","_","i","n","d","e","x">> THEN append(w, <<"[","[","v","e","r","t","e","x","_","i","d","]","]">>)  \* "vertex_index" "[[vertex_id]]"
    ELSE IF builtin.name = <<"p","o","s","i","t","i","o","n">> THEN append(w, <<"[","[","p","o","s","i","t","i","o","n","]","]">>)  \* "position" "[[position]]"
    ELSE w

visitBuiltinAttribute(builtin, w) ==
    IF builtin.name = <<"v","e","r","t","e","x","_","i","n","d","e","x">> THEN append(w, <<"[","[","v","e","r","t","e","x","_","i","d","]","]">>)  \* "vertex_index" "[[vertex_id]]"
    ELSE IF builtin.name = <<"p","o","s","i","t","i","o","n">> THEN append(w, <<"[","[","p","o","s","i","t","i","o","n","]","]">>)  \* "position" "[[position]]"
    ELSE ASSERT_NOT_REACHED(w)

visitStageAttribute(stage, w) ==
    CASE stage.stage = "Vertex" -> append(w, <<"[","[","v","e","r","t","e","x","]","]">>)  \* "[[vertex]]"
      [] stage.stage = "Fragment" -> append(w, <<"[","[","f","r","a","g","m","e","n","t","]","]">>)  \* "[[fragment]]"
      [] stage.stage = "Compute" -> append(w, <<"[","[","c","o","m","p","u","t","e","]","]">>)  \* "[[compute]]"

visitLocationAttribute(location, w) ==
    append(append(append(w, <<"[","[","a","t","t","r","i","b","u","t","e","(">>), Decimal(location.location)), <<")","]","]">>)  \* "[[attribute(" ")]]"

\* visit(AST::Attribute&): AST::Visitor::visit dispatches on the node kind.
visitAttribute(attribute, w) ==
    CASE attribute.kind = "BuiltinAttribute" -> visitBuiltinAttribute(attribute, w)
      [] attribute.kind = "StageAttribute" -> visitStageAttribute(attribute, w)
      [] attribute.kind = "LocationAttribute" -> visitLocationAttribute(attribute, w)

\* ---- types --------------------------------------------------------------

visitArrayType_NoCountCheck(type, w) ==
    LET w1 == ASSERT(w, type.maybeElementType # None)
        w2 == append(w1, <<"a","r","r","a","y","<">>)  \* "array<"
        w3 == IF type.maybeElementType = None THEN w2
              ELSE visitTypeDecl(type.maybeElementType, w2)
        w4 == append(w3, <<","," ">>)  \* ", "
        w5 == IF type.maybeElementCount = None THEN w4
              ELSE visitExpression(type.maybeElementCount, w4)
    IN  append(w5, <<">">>)  \* ">"

visitArrayType(type, w) ==
    LET w1 == ASSERT(w, type.maybeElementType # None)
        w2 == ASSERT(w1, type.maybeElementCount # None)
        w3 == append(w2, <<"a","r","r","a","y","<">>)  \* "array<"
        w4 == IF w3.fatal THEN w3 ELSE visitTypeDecl(type.maybeElementType, w3)
        w5 == append(w4, <<","," ">>)  \* ", "
        w6 == IF w5.fatal THEN w5 ELSE visitExpression(type.maybeElementCount, w5)
    IN  append(w6, <<">">>)  \* ">"

visitNamedType_NoFloat(type, w) ==
    IF type.name = <<"i","3","2">> THEN append(w, <<"i","n","t">>)  \* "i32" "int"
    ELSE IF type.name = <<"u","3","2">> THEN append(w, <<"u","n","s","i","g","n","e","d">>)  \* "u32" "unsigned"
    ELSE append(w, type.name)

visitNamedType(type, w) ==
    IF type.name = <<"i","3","2">> THEN append(w, <<"i","n","t">>)  \* "i32" "int"
    ELSE IF type.name = <<"f","3","2">> THEN append(w, <<"f","l","o","a","t">>)  \* "f32" "float"
    ELSE IF type.name = <<"u","3","2">> THEN append(w, <<"u","n","s","i","g","n","e","d">>)  \* "u32" "unsigned"
    ELSE append(w, type.name)

visitParameterizedType(type, w) ==
    CASE type.base = "Vec2" ->
            append(visitTypeDecl(type.elementType, append(w, <<"v","e","c","<">>)), <<","," ","2",">">>)  \* "vec<" ", 2>"
      [] type.base = "Vec3" ->
            append(visitTypeDecl(type.elementType, append(w, <<"v","e","c","<">>)), <<","," ","3",">">>)  \* "vec<" ", 3>"
      [] type.base = "Vec4" ->
            append(visitTypeDecl(type.elementType, append(w, <<"v","e","c","<">>)), <<","," ","4",">">>)  \* "vec<" ", 4>"
      [] type.base = "Mat2x2" -> ASSERT_NOT_REACHED(w)
      [] type.base = "Mat2x3" -> ASSERT_NOT_REACHED(w)
      [] type.base = "Mat2x4" -> ASSERT_NOT_REACHED(w)
      [] type.base = "Mat3x2" -> ASSERT_NOT_REACHED(w)
      [] type.base = "Mat3x3" -> ASSERT_NOT_REACHED(w)
      [] type.base = "Mat3x4" -> ASSERT_NOT_REACHED(w)
      [] type.base = "Mat4x2" -> ASSERT_NOT_REACHED(w)
      [] type.base = "Mat4x3" -> ASSERT_NOT_REACHED(w)
      [] type.base = "Mat4x4" -> w

\* visit(AST::TypeDecl&): AST::Visitor::visit dispatches on the node kind.
visitTypeDecl(type, w) ==
    IF w.fatal THEN w
    ELSE CASE type.kind = "ArrayType" -> visitArrayType(type, w)
           [] type.kind = "NamedType" -> visitNamedType(type, w)
           [] type.kind = "ParameterizedType" -> visitParameterizedType(type, w)

\* ---- expressions --------------------------------------------------------

\* for (auto& argument : call.arguments()) of the array branch, from the i-th on.
RECURSIVE arrayArguments(_, _, _)
arrayArguments(arguments, i, w) ==
    IF i > Len(arguments) THEN w
    ELSE arrayArguments(arguments, i + 1,
            append(visitExpression(arguments[i], appendIndent(w)), <<",","\n">>))  \* ",\n"

\* for (auto& argument : call.arguments()) of the call branch; first is i = 1.
RECURSIVE callArguments(_, _, _)
callArguments(arguments, i, w) ==
    IF i > Len(arguments) THEN w
    ELSE callArguments(arguments, i + 1,
            visitExpression(arguments[i], IF i # 1 THEN append(w, <<","," ">>) ELSE w))  \* ", "

RECURSIVE callArguments_NoFirst(_, _, _)
callArguments_NoFirst(arguments, i, w) ==
    IF i > Len(arguments) THEN w
    ELSE callArguments_NoFirst(arguments, i + 1,
            visitExpression(arguments[i], append(w, <<","," ">>)))  \* ", "

visitCallableExpression_NoFirst(call, w) ==
    IF call.target.kind = "ArrayType" THEN
        LET w1 == append(w, <<"{","\n">>)  \* "{\n"
            w2 == IndentationScopeEnter(w1)
            w3 == arrayArguments(call.arguments, 1, w2)
            w4 == IndentationScopeExit(w3)
        IN  append(appendIndent(w4), <<"}">>)  \* "}"
    ELSE
        LET w1 == visitTypeDecl(call.target, w)
            w2 == append(w1, <<"(">>)  \* "("
            w3 == callArguments_NoFirst(call.arguments, 1, w2)
        IN  append(w3, <<")">>)  \* ")"

visitCallableExpression_NoScope(call, w) ==
    IF call.target.kind = "ArrayType" THEN
        LET w1 == append(w, <<"{","\n">>)  \* "{\n"
            w3 == arrayArguments(call.arguments, 1, w1)
        IN  append(appendIndent(w3), <<"}">>)  \* "}"
    ELSE
        LET w1 == visitTypeDecl(call.target, w)
            w2 == append(w1, <<"(">>)  \* "("
            w3 == callArguments(call.arguments, 1, w2)
        IN  append(w3, <<")">>)  \* ")"

visitCallableExpression_ScopeLeft(call, w) ==
    IF call.target.kind = "ArrayType" THEN
        LET w1 == append(w, <<"{","\n">>)  \* "{\n"
            w2 == IndentationScopeEnter(w1)
            w3 == arrayArguments(call.arguments, 1, w2)
            w4 == IndentationScopeExit(w3)
        IN  IndentationScopeEnter(append(appendIndent(w4), <<"}">>))  \* "}"
    ELSE
        LET w1 == visitTypeDecl(call.target, w)
            w2 == append(w1, <<"(">>)  \* "("
            w3 == callArguments(call.arguments, 1, w2)
        IN  append(w3, <<")">>)  \* ")"

visitCallableExpression(call, w) ==
    IF call.target.kind = "ArrayType" THEN
        LET w1 == append(w, <<"{","\n">>)  \* "{\n"
            w2 == IndentationScopeEnter(w1)
            w3 == arrayArguments(call.arguments, 1, w2)
            w4 == IndentationScopeExit(w3)
        IN  append(appendIndent(w4), <<"}">>)  \* "}"
    ELSE
        LET w1 == visitTypeDecl(call.target, w)
            w2 == append(w1, <<"(">>)  \* "("
            w3 == callArguments(call.arguments, 1, w2)
        IN  append(w3, <<")">>)  \* ")"

visitUnaryExpression(unary, w) ==
    LET w1 == IF unary.operation = "Negate" THEN append(w, <<"-">>) ELSE w  \* "-"
    IN  visitExpression(unary.expression, w1)

visitArrayAccess(access, w) ==
    LET w1 == visitExpression(access.baseExpression, w)
        w2 == append(w1, <<"[">>)  \* "["
        w3 == visitExpression(access.index, w2)
    IN  append(w3, <<"]">>)  \* "]"

visitIdentifierExpression(identifier, w) == append(w, identifier.identifier)

visitStructureAccess(access, w) ==
    LET w1 == visitExpression(access.baseExpression, w)
    IN  append(append(w1, <<".">>), access.fieldName)  \* "."

visitAbstractIntLiteral(literal, w) == append(w, Decimal(literal.value))

visitInt32Literal(literal, w) == append(w, Decimal(literal.value))

\* visit(AST::Expression&): AST::Visitor::visit dispatches on the node kind.
visitExpression(expression, w) ==
    IF w.fatal THEN w
    ELSE CASE expression.kind = "AbstractIntLiteral" -> visitAbstractIntLiteral(expression, w)
           [] expression.kind = "ArrayAccess" -> visitArrayAccess(expression, w)
           [] expression.kind = "CallableExpression" -> visitCallableExpression(expression, w)
           [] expression.kind = "IdentifierExpression" -> visitIdentifierExpression(expression, w)
           [] expression.kind = "Int32Literal" -> visitInt32Literal(expression, w)
           [] expression.kind = "StructureAccess" -> visitStructureAccess(expression, w)
           [] expression.kind = "UnaryExpression" -> visitUnaryExpression(expression, w)

\* ---- statements ---------------------------------------------------------

visitAssignmentStatement(assignment, w) ==
    LET w1 == IF assignment.maybeLhs # None
              THEN append(visitExpression(assignment.maybeLhs, w), <<" ","="," ">>)  \* " = "
              ELSE w
    IN  visitExpression(assignment.rhs, w1)

visitReturnStatement(statement, w) ==
    LET w1 == append(w, <<"r","e","t","u","r","n">>)  \* "return"
    IN  IF statement.maybeExpression # None
        THEN visitExpression(statement.maybeExpression, append(w1, <<" ">>))  \* " "
        ELSE w1

\* AST::Visitor::visit(AST::CompoundStatement&): each statement in order.
RECURSIVE visitCompoundStatement(_, _, _)
visitCompoundStatement(statements, i, w) ==
    IF i > Len(statements) THEN w
    ELSE visitCompoundStatement(statements, i + 1, visitStatement(statements[i], w))

\* AST::Visitor::visit(AST::Statement&): dispatches on the node kind.
dispatchStatement(statement, w) ==
    CASE statement.kind = "AssignmentStatement" -> visitAssignmentStatement(statement, w)
      [] statement.kind = "CompoundStatement" ->
            visitCompoundStatement(statement.statements, 1, w)
      [] statement.kind = "ReturnStatement" -> visitReturnStatement(statement, w)

visitStatement_AlwaysTerminated(statement, w) ==
    IF w.fatal THEN w
    ELSE append(dispatchStatement(statement, appendIndent(w)), <<";","\n">>)  \* ";\n"

visitStatement(statement, w) ==
    IF w.fatal THEN w
    ELSE LET w1 == IF statement.kind # "CompoundStatement" THEN appendIndent(w) ELSE w
             w2 == dispatchStatement(statement, w1)
         IN  IF statement.kind # "CompoundStatement" THEN append(w2, <<";","\n">>) ELSE w2  \* ";\n"

\* ---- parameters and declarations ----------------------------------------

\* for (auto& attribute : ...attributes()) { append(" "); visit(attribute); }
RECURSIVE trailingAttributes(_, _, _)
trailingAttributes(attributes, i, w) ==
    IF i > Len(attributes) THEN w
    ELSE trailingAttributes(attributes, i + 1,
            visitAttribute(attributes[i], append(w, <<" ">>)))  \* " "

visitParameter(parameter, w) ==
    LET w1 == visitTypeDecl(parameter.type, w)
        w2 == append(append(w1, <<" ">>), parameter.name)  \* " "
    IN  trailingAttributes(parameter.attributes, 1, w2)

\* for (auto& attribute : functionDefinition.attributes()) of visit(FunctionDecl&)
RECURSIVE leadingAttributes(_, _, _)
leadingAttributes(attributes, i, w) ==
    IF i > Len(attributes) THEN w
    ELSE leadingAttributes(attributes, i + 1,
            append(visitAttribute(attributes[i], w), <<" ">>))  \* " "

\* for (auto& parameter : functionDefinition.parameters()); first is i = 1.
RECURSIVE functionParameters(_, _, _)
functionParameters(parameters, i, w) ==
    IF i > Len(parameters) THEN w
    ELSE functionParameters(parameters, i + 1,
            visitParameter(parameters[i], IF i # 1 THEN append(w, <<","," ">>) ELSE w))  \* ", "

RECURSIVE functionParameters_Trailing(_, _, _)
functionParameters_Trailing(parameters, i, w) ==
    IF i > Len(parameters) THEN w
    ELSE functionParameters_Trailing(parameters, i + 1,
            append(visitParameter(parameters[i], w), <<","," ">>))  \* ", "

visitFunctionDecl_Trailing(functionDefinition, w) ==
    LET w1 == ASSERT(w, functionDefinition.maybeReturnType # None)
        w2 == leadingAttributes(functionDefinition.attributes, 1, w1)
        w3 == IF w2.fatal THEN w2 ELSE visitTypeDecl(functionDefinition.maybeReturnType, w2)
        w4 == append(append(append(w3, <<" ">>), functionDefinition.name), <<"(">>)  \* " " "("
        w5 == functionParameters_Trailing(functionDefinition.parameters, 1, w4)
        w6 == append(append(w5, <<")","\n">>), <<"{","\n">>)  \* ")\n" "{\n"
        w7 == IndentationScopeEnter(w6)
        w8 == visitCompoundStatement(functionDefinition.body.statements, 1, w7)
        w9 == append(w8, <<"}","\n","\n">>)  \* "}\n\n"
    IN  IndentationScopeExit(w9)

visitFunctionDecl(functionDefinition, w) ==
    LET w1 == ASSERT(w, functionDefinition.maybeReturnType # None)
        w2 == leadingAttributes(functionDefinition.attributes, 1, w1)
        w3 == IF w2.fatal THEN w2 ELSE visitTypeDecl(functionDefinition.maybeReturnType, w2)
        w4 == append(append(append(w3, <<" ">>), functionDefinition.name), <<"(">>)  \* " " "("
        w5 == functionParameters(functionDefinition.parameters, 1, w4)
        w6 == append(append(w5, <<")","\n">>), <<"{","\n">>)  \* ")\n" "{\n"
        w7 == IndentationScopeEnter(w6)
        w8 == visitCompoundStatement(functionDefinition.body.statements, 1, w7)
        w9 == append(w8, <<"}","\n","\n">>)  \* "}\n\n"
    IN  IndentationScopeExit(w9)

\* for (auto& member : structDecl.members())
RECURSIVE structMembers(_, _, _)
structMembers(members, i, w) ==
    IF i > Len(members) THEN w
    ELSE LET w1 == appendIndent(w)
             w2 == visitTypeDecl(members[i].type, w1)
             w3 == append(append(w2, <<" ">>), members[i].name)  \* " "
             w4 == trailingAttributes(members[i].attributes, 1, w3)
         IN  structMembers(members, i + 1, append(w4, <<";","\n">>))  \* ";\n"

visitStructDecl(structDecl, w) ==
    LET w1 == append(append(append(appendIndent(w), <<"s","t","r","u","c","t"," ">>), structDecl.name), <<" ","{","\n">>)  \* "struct " " {\n"
        w2 == IndentationScopeEnter(w1)
        w3 == structMembers(structDecl.members, 1, w2)
        w4 == IndentationScopeExit(w3)
    IN  append(appendIndent(w4), <<"}",";","\n","\n">>)  \* "};\n\n"

visitVariableDecl(variableDecl, w) ==
    LET w1 == ASSERT(w, variableDecl.maybeTypeDecl # None)
        w2 == IF w1.fatal THEN w1 ELSE visitTypeDecl(variableDecl.maybeTypeDecl, w1)
        w3 == append(append(w2, <<" ">>), variableDecl.name)  \* " "
    IN  IF variableDecl.maybeInitializer # None
        THEN visitExpression(variableDecl.maybeInitializer, append(w3, <<" ","="," ">>))  \* " = "
        ELSE w3

\* AST::Visitor::visit of one top-level declaration: dispatches on the node kind.
visitDecl(decl, w) ==
    IF w.fatal THEN w
    ELSE CASE decl.kind = "FunctionDecl" -> visitFunctionDecl(decl, w)
           [] decl.kind = "StructDecl" -> visitStructDecl(decl, w)
           [] decl.kind = "VariableDecl" -> visitVariableDecl(decl, w)

\* AST::Visitor::visit(AST::ShaderModule&): each declaration in document order.
RECURSIVE moduleDeclarations(_, _, _)
moduleDeclarations(declarations, i, w) ==
    IF i > Len(declarations) THEN w
    ELSE moduleDeclarations(declarations, i + 1, visitDecl(declarations[i], w))

visitShaderModule(shaderModule, w) == moduleDeclarations(shaderModule.declarations, 1, w)

\* The RenderMetalFunctionEntryPoints that emitMetalFunctions returns.
emitMetalFunctionsResult(module) == [vertex |-> <<>>, fragment |-> <<>>]

(***************************************************************************)
(* AST constructors and the bounded input domain.                          *)
(***************************************************************************)
NamedType(name) == [kind |-> "NamedType", name |-> name]
ParameterizedType(base, elementType) ==
    [kind |-> "ParameterizedType", base |-> base, elementType |-> elementType]
ArrayType(elementType, elementCount) ==
    [kind |-> "ArrayType", maybeElementType |-> elementType,
     maybeElementCount |-> elementCount]

BuiltinAttribute(name) == [kind |-> "BuiltinAttribute", name |-> name]
StageAttribute(stage) == [kind |-> "StageAttribute", stage |-> stage]
LocationAttribute(location) == [kind |-> "LocationAttribute", location |-> location]

IdentifierExpression(identifier) ==
    [kind |-> "IdentifierExpression", identifier |-> identifier]
AbstractIntLiteral(value) == [kind |-> "AbstractIntLiteral", value |-> value]
Int32Literal(value) == [kind |-> "Int32Literal", value |-> value]
CallableExpression(target, arguments) ==
    [kind |-> "CallableExpression", target |-> target, arguments |-> arguments]
UnaryExpression(expression) ==
    [kind |-> "UnaryExpression", operation |-> "Negate", expression |-> expression]
ArrayAccess(base, index) ==
    [kind |-> "ArrayAccess", baseExpression |-> base, index |-> index]
StructureAccess(base, fieldName) ==
    [kind |-> "StructureAccess", baseExpression |-> base, fieldName |-> fieldName]

AssignmentStatement(lhs, rhs) ==
    [kind |-> "AssignmentStatement", maybeLhs |-> lhs, rhs |-> rhs]
ReturnStatement(expression) ==
    [kind |-> "ReturnStatement", maybeExpression |-> expression]
CompoundStatement(statements) ==
    [kind |-> "CompoundStatement", statements |-> statements]

Parameter(type, name, attributes) ==
    [kind |-> "Parameter", type |-> type, name |-> name, attributes |-> attributes]
StructMember(type, name, attributes) ==
    [kind |-> "StructMember", type |-> type, name |-> name, attributes |-> attributes]
FunctionDecl(attributes, returnType, name, parameters, body) ==
    [kind |-> "FunctionDecl", attributes |-> attributes, maybeReturnType |-> returnType,
     name |-> name, parameters |-> parameters, body |-> body]
StructDecl(name, members) ==
    [kind |-> "StructDecl", name |-> name, members |-> members]
VariableDecl(type, name, initializer) ==
    [kind |-> "VariableDecl", maybeTypeDecl |-> type, name |-> name,
     maybeInitializer |-> initializer]
ShaderModule(declarations) ==
    [kind |-> "ShaderModule", declarations |-> declarations]

\* The sequences over S of length at most n.
SeqUpTo(S, n) == UNION {[1..k -> S] : k \in 0..n}

\* The sequences over S of length 1..n with one element replaced by one of D.
OneFrom(S, D, n) ==
    UNION {{[s EXCEPT ![i] = x] : s \in [1..k -> S], i \in 1..k, x \in D} : k \in 1..n}

F32 == NamedType(<<"f","3","2">>)  \* "f32"
Vec4F32 == ParameterizedType("Vec4", F32)
V == IdentifierExpression(<<"v">>)  \* "v"

VectorBases == {"Vec2", "Vec3", "Vec4"}
MatrixBases ==
    {"Mat2x2", "Mat2x3", "Mat2x4", "Mat3x2", "Mat3x3", "Mat3x4", "Mat4x2", "Mat4x3", "Mat4x4"}

Leaves == {V, AbstractIntLiteral(3), Int32Literal(0 - 12)}

\* Callees: a function, a scalar and a vector constructor, an unimplemented
\* matrix, and array types with and without element type and count.
ArrayTargets == {ArrayType(F32, AbstractIntLiteral(2)), ArrayType(None, None)}
Targets ==
    {NamedType(<<"f">>), F32, Vec4F32, ParameterizedType("Mat3x3", F32)} \cup ArrayTargets  \* "f"

\* Calls nested k deep, one argument each: what the arguments of a call hold.
RECURSIVE NestedCalls(_)
NestedCalls(k) ==
    IF k = 0 THEN {}
    ELSE {CallableExpression(t, <<x>>) :
            t \in {NamedType(<<"f">>), ArrayType(None, None)},  \* "f"
            x \in {V} \cup NestedCalls(k - 1)}

ArgumentLists ==
    SeqUpTo(Leaves, MaxArgs) \cup OneFrom(Leaves, NestedCalls(MaxNest - 1), MaxArgs)

Calls == {CallableExpression(t, a) : t \in Targets, a \in ArgumentLists}

Operands == {V, CallableExpression(NamedType(<<"f">>), <<V>>)}  \* "f"

Expressions ==
    Leaves \cup Calls
    \cup {UnaryExpression(e) : e \in Operands \cup {AbstractIntLiteral(3)}}
    \cup {ArrayAccess(e, i) : e \in Operands, i \in {AbstractIntLiteral(3), V}}
    \cup {StructureAccess(e, <<"p","o","s","i","t","i","o","n">>) : e \in Operands}  \* "position"

Types ==
    {NamedType(n) : n \in {<<"i","3","2">>, <<"f","3","2">>, <<"u","3","2">>, <<"V","e","r","t","e","x">>}}  \* "i32" "f32" "u32" "Vertex"
    \cup {ParameterizedType(b, e) : b \in VectorBases \cup MatrixBases,
                                     e \in {F32, NamedType(<<"i","3","2">>), Vec4F32}}  \* "i32"
    \cup {ArrayType(e, c) :
            e \in {None, F32, Vec4F32, ParameterizedType("Mat2x2", F32),
                   ArrayType(F32, AbstractIntLiteral(2))},
            c \in {None, AbstractIntLiteral(3), V,
                   CallableExpression(NamedType(<<"f">>), <<V>>)}}  \* "f"

Attributes ==
    {BuiltinAttribute(n) :
        n \in {<<"v","e","r","t","e","x","_","i","n","d","e","x">>, <<"p","o","s","i","t","i","o","n">>, <<"i","n","s","t","a","n","c","e","_","i","n","d","e","x">>, <<"f","r","a","g","_","d","e","p","t","h">>}}  \* "vertex_index" "position" "instance_index" "frag_depth"
    \cup {StageAttribute(s) : s \in {"Vertex", "Fragment", "Compute"}}
    \cup {LocationAttribute(l) : l \in {0, 7, 12}}

Parameters ==
    {Parameter(t, <<"x">>, a) :  \* "x"
        t \in {NamedType(<<"u","3","2">>), Vec4F32, ArrayType(F32, None)},  \* "u32"
        a \in SeqUpTo({BuiltinAttribute(<<"v","e","r","t","e","x","_","i","n","d","e","x">>), BuiltinAttribute(<<"f","r","a","g","_","d","e","p","t","h">>),  \* "vertex_index" "frag_depth"
                       LocationAttribute(1)}, MaxAttrs)}

\* Statements as a function body holds them.
SimpleStatements ==
    {ReturnStatement(None)}
    \cup UNION {{ReturnStatement(e), AssignmentStatement(None, e), AssignmentStatement(V, e)} :
                  e \in Leaves \cup NestedCalls(MaxNest)
                        \cup {CallableExpression(ParameterizedType("Mat3x3", F32), <<V>>)}}

ReturnV == ReturnStatement(V)
AssignArray ==
    AssignmentStatement(V, CallableExpression(ArrayType(None, None),
        <<CallableExpression(ArrayType(None, None), <<V>>), AbstractIntLiteral(3)>>))

InnerStatements == {ReturnV, AssignArray, CompoundStatement(<<ReturnV>>), CompoundStatement(<<>>)}

CompoundStatements == {CompoundStatement(s) : s \in SeqUpTo(InnerStatements, MaxStmts)}

Statements == SimpleStatements \cup CompoundStatements

Bodies ==
    {CompoundStatement(<<>>), CompoundStatement(<<ReturnV>>),
     CompoundStatement(<<AssignArray, CompoundStatement(<<ReturnV>>)>>)}

FunctionDecls ==
    {FunctionDecl(a, r, n, p, b) :
        a \in SeqUpTo({StageAttribute(s) : s \in {"Vertex", "Fragment", "Compute"}}, MaxAttrs),
        r \in {None, F32, NamedType(<<"V","e","r","t","e","x">>), ParameterizedType("Mat2x3", F32)},  \* "Vertex"
        n \in {<<"m","a","i","n">>, <<"f">>},  \* "main" "f"
        p \in SeqUpTo({Parameter(NamedType(<<"u","3","2">>), <<"i">>, <<BuiltinAttribute(<<"v","e","r","t","e","x","_","i","n","d","e","x">>)>>),  \* "u32" "i" "vertex_index"
                       Parameter(NamedType(<<"V","e","r","t","e","x">>), <<"v">>, <<>>),  \* "Vertex" "v"
                       Parameter(Vec4F32, <<"p">>,  \* "p"
                                 <<LocationAttribute(0), BuiltinAttribute(<<"p","o","s","i","t","i","o","n">>)>>)},  \* "position"
                      MaxParams),
        b \in Bodies}

PositionMember == StructMember(Vec4F32, <<"p","o","s","i","t","i","o","n">>, <<BuiltinAttribute(<<"p","o","s","i","t","i","o","n">>)>>)  \* "position" "position"

StructDecls ==
    {StructDecl(<<"V","e","r","t","e","x">>, m) :  \* "Vertex"
        m \in SeqUpTo({PositionMember,
                       StructMember(NamedType(<<"i","3","2">>), <<"i","d">>, <<>>),  \* "i32" "id"
                       StructMember(ArrayType(F32, AbstractIntLiteral(2)), <<"u","v">>,  \* "uv"
                                    <<LocationAttribute(1), BuiltinAttribute(<<"s","a","m","p","l","e","_","m","a","s","k">>)>>)},  \* "sample_mask"
                      MaxMembers)}

VariableDecls ==
    {VariableDecl(t, <<"g">>, i) :  \* "g"
        t \in {None, F32, ArrayType(F32, AbstractIntLiteral(2))},
        i \in {None, AbstractIntLiteral(3), CallableExpression(ArrayType(None, None), <<V>>)}}

VertexStruct == StructDecl(<<"V","e","r","t","e","x">>, <<PositionMember>>)  \* "Vertex"
VertexFunction(name) ==
    FunctionDecl(<<StageAttribute("Vertex")>>, NamedType(<<"V","e","r","t","e","x">>), name, <<>>,  \* "Vertex"
                 CompoundStatement(<<ReturnV>>))

TopLevelDecls ==
    {VertexStruct, VertexFunction(<<"m","a","i","n">>), VertexFunction(<<"v","s">>),  \* "main" "vs"
     FunctionDecl(<<StageAttribute("Fragment")>>, Vec4F32, <<"f","s">>,  \* "fs"
                  <<Parameter(NamedType(<<"V","e","r","t","e","x">>), <<"v">>, <<>>)>>,  \* "Vertex" "v"
                  CompoundStatement(<<AssignArray, ReturnV>>)),
     FunctionDecl(<<StageAttribute("Compute")>>, NamedType(<<"v","o","i","d">>), <<"c","s">>, <<>>,  \* "void" "cs"
                  CompoundStatement(<<>>)),
     FunctionDecl(<<>>, F32, <<"h","e","l","p","e","r">>, <<>>, CompoundStatement(<<ReturnV>>)),  \* "helper"
     FunctionDecl(<<StageAttribute("Vertex")>>, None, <<"b","a","d">>, <<>>, CompoundStatement(<<>>)),  \* "bad"
     VariableDecl(F32, <<"g">>, AbstractIntLiteral(3))}  \* "g"

ShaderModules == {ShaderModule(d) : d \in SeqUpTo(TopLevelDecls, MaxDecls)}

\* Text already in the caller's StringBuilder when the call is made.
Prefixes == {<<>>, <<"/","/"," ">>}  \* "// "

(***************************************************************************)
(* The state machine: one call of a visit method, or of emitMetalFunctions,*)
(* on a node of the input domain.  Declarations and modules are visited at *)
(* level 0, statements in a function body at level 1, expressions and      *)
(* types at any level up to MaxIndent.                                     *)
(***************************************************************************)
EntryLevels(n) ==
    IF n.kind \in {"ShaderModule", "FunctionDecl", "StructDecl", "VariableDecl", "Parameter"}
    THEN {0}
    ELSE IF n.kind \in {"AssignmentStatement", "ReturnStatement", "CompoundStatement"}
    THEN {1}
    ELSE IF n.kind \in {"BuiltinAttribute", "StageAttribute", "LocationAttribute"}
    THEN {0, 1}
    ELSE 0..MaxIndent

Init ==
    /\ \/ node \in Expressions
       \/ node \in Types
       \/ node \in Attributes
       \/ node \in Statements
       \/ node \in Parameters
       \/ node \in FunctionDecls
       \/ node \in StructDecls
       \/ node \in VariableDecls
       \/ node \in ShaderModules
    /\ m_stringBuilder \in Prefixes
    /\ m_indent \in EntryLevels(node)
    /\ pc = "entry"
    /\ entryPoints = None
    /\ entry = [out |-> m_stringBuilder, indent |-> m_indent]

\* The call has run to w: it returned, or an assertion ended the process.
Finish(w) ==
    /\ m_stringBuilder' = w.out
    /\ m_indent' = w.indent
    /\ pc' = IF w.fatal THEN "aborted" ELSE "returned"
    /\ UNCHANGED <<node, entry>>

Writer == NewWriter(m_stringBuilder, m_indent)

VisitAttribute ==
    /\ pc = "entry"
    /\ node.kind \in {"BuiltinAttribute", "StageAttribute", "LocationAttribute"}
    /\ Finish(visitAttribute(node, Writer))
    /\ UNCHANGED entryPoints

VisitTypeDecl ==
    /\ pc = "entry"
    /\ node.kind \in {"ArrayType", "NamedType", "ParameterizedType"}
    /\ Finish(visitTypeDecl(node, Writer))
    /\ UNCHANGED entryPoints

VisitExpression ==
    /\ pc = "entry"
    /\ node.kind \in {"AbstractIntLiteral", "ArrayAccess", "CallableExpression",
                      "IdentifierExpression", "Int32Literal", "StructureAccess",
                      "UnaryExpression"}
    /\ Finish(visitExpression(node, Writer))
    /\ UNCHANGED entryPoints

VisitStatement ==
    /\ pc = "entry"
    /\ node.kind \in {"AssignmentStatement", "ReturnStatement", "CompoundStatement"}
    /\ Finish(visitStatement(node, Writer))
    /\ UNCHANGED entryPoints

VisitParameter ==
    /\ pc = "entry"
    /\ node.kind = "Parameter"
    /\ Finish(visitParameter(node, Writer))
    /\ UNCHANGED entryPoints

VisitFunctionDecl ==
    /\ pc = "entry"
    /\ node.kind = "FunctionDecl"
    /\ Finish(visitFunctionDecl(node, Writer))
    /\ UNCHANGED entryPoints

VisitStructDecl ==
    /\ pc = "entry"
    /\ node.kind = "StructDecl"
    /\ Finish(visitStructDecl(node, Writer))
    /\ UNCHANGED entryPoints

VisitVariableDecl ==
    /\ pc = "entry"
    /\ node.kind = "VariableDecl"
    /\ Finish(visitVariableDecl(node, Writer))
    /\ UNCHANGED entryPoints

\* emitMetalFunctions(stringBuilder, module): a new writer, at level 0.
EmitMetalFunctions ==
    /\ pc = "entry"
    /\ node.kind = "ShaderModule"
    /\ LET w == visitShaderModule(node, NewWriter(m_stringBuilder, 0))
       IN  /\ Finish(w)
           /\ entryPoints' = IF w.fatal THEN None ELSE emitMetalFunctionsResult(node)

Next ==
    \/ VisitAttribute
    \/ VisitTypeDecl
    \/ VisitExpression
    \/ VisitStatement
    \/ VisitParameter
    \/ VisitFunctionDecl
    \/ VisitStructDecl
    \/ VisitVariableDecl
    \/ EmitMetalFunctions

Spec == Init /\ [][Next]_vars

(***************************************************************************)
(* Properties.  A property speaks of the text the call appended and of the *)
(* text the children of the node produce when visited on their own.        *)
(***************************************************************************)
Spaces(n) == [i \in 1..n |-> " "]

RECURSIVE Flatten(_)
Flatten(texts) == IF texts = <<>> THEN <<>> ELSE Head(texts) \o Flatten(Tail(texts))

\* The texts with the separator between consecutive ones only.
RECURSIVE JoinWith(_, _)
JoinWith(separator, texts) ==
    IF Len(texts) <= 1 THEN Flatten(texts)
    ELSE Head(texts) \o separator \o JoinWith(separator, Tail(texts))

TextOfExpression(e, d) == visitExpression(e, NewWriter(<<>>, d)).out
TextOfType(t, d) == visitTypeDecl(t, NewWriter(<<>>, d)).out
TextOfAttribute(a) == visitAttribute(a, NewWriter(<<>>, 0)).out
TextOfStatement(st, d) == visitStatement(st, NewWriter(<<>>, d)).out

Returned(kinds) == pc = "returned" /\ node.kind \in kinds
Called(kinds) == pc # "entry" /\ node.kind \in kinds

IsArrayCall(e) == e.kind = "CallableExpression" /\ e.target.kind = "ArrayType"

HasStage(f, stage) ==
    \E i \in 1..Len(f.attributes) :
        f.attributes[i].kind = "StageAttribute" /\ f.attributes[i].stage = stage

\* The names of the functions of the module that carry the stage attribute.
StageFunctionNames(module, stage) ==
    {module.declarations[i].name : i \in
        {j \in 1..Len(module.declarations) :
            /\ module.declarations[j].kind = "FunctionDecl"
            /\ HasStage(module.declarations[j], stage)}}

EntryPointNamed(name, module, stage) ==
    IF StageFunctionNames(module, stage) = {} THEN name = <<>>
    ELSE name \in StageFunctionNames(module, stage)

\* C1: the record emitMetalFunctions returns names a function of the module
\* carrying the Vertex stage attribute as the vertex entry point and one
\* carrying the Fragment stage attribute as the fragment entry point; a name is
\* empty only when the module has no function of that stage.
C1_EntryPointsNamed ==
    Returned({"ShaderModule"}) =>
        /\ EntryPointNamed(entryPoints.vertex, node, "Vertex")
        /\ EntryPointNamed(entryPoints.fragment, node, "Fragment")

\* C2: visiting a ParameterizedType whose base is one of the nine matrix shapes
\* ends in the failed assertion: none of the nine returns normally.
C2_MatrixIsFatal ==
    (Called({"ParameterizedType"}) /\ node.base \in MatrixBases) => pc = "aborted"

\* C3: a call whose callee is an array type, with n arguments and visited at
\* level d, appends an opening brace and a newline, then for each argument in
\* order the prefix of level d+1, the argument's text and ",\n", then the prefix
\* of level d and the closing brace; the callee is not emitted.
C3_ArrayConstructor ==
    (Returned({"CallableExpression"}) /\ IsArrayCall(node)) =>
        LET d == entry.indent
            line(i) == Spaces(4 * (d + 1))
                       \o TextOfExpression(node.arguments[i], d + 1) \o <<",","\n">>  \* ",\n"
        IN  m_stringBuilder =
                entry.out \o <<"{","\n">>  \* "{\n"
                \o Flatten([i \in 1..Len(node.arguments) |-> line(i)])
                \o Spaces(4 * d) \o <<"}">>  \* "}"

C3_Witness ==
    /\ Returned({"CallableExpression"})
    /\ IsArrayCall(node)
    /\ Len(node.arguments) = 2
    /\ IsArrayCall(node.arguments[1])
    /\ entry.indent = 2

\* C4: a call whose callee is not an array type appends the callee's text, "(",
\* the arguments' texts in order with ", " between consecutive ones only, and
\* ")"; with no argument it appends the callee's text and "()".
C4_FunctionCall ==
    (Returned({"CallableExpression"}) /\ ~IsArrayCall(node)) =>
        LET d == entry.indent
            arguments == [i \in 1..Len(node.arguments) |->
                            TextOfExpression(node.arguments[i], d)]
            callee == TextOfType(node.target, d)
        IN  /\ m_stringBuilder =
                    entry.out \o callee \o <<"(">> \o JoinWith(<<","," ">>, arguments) \o <<")">>  \* "(" ", " ")"
            /\ node.arguments = <<>> => m_stringBuilder = entry.out \o callee \o <<"(",")">>  \* "()"

C4_Witness ==
    /\ Returned({"CallableExpression"})
    /\ node.target = NamedType(<<"f">>)  \* "f"
    /\ Len(node.arguments) = 2
    /\ node.arguments[2].kind = "CallableExpression"

\* C5: through visit(Statement&) at level d, a statement that is not a compound
\* statement appends 4*d spaces, its own text and ";\n"; a compound statement
\* appends only what its child statements append, in order.
C5_StatementDispatch ==
    Returned({"AssignmentStatement", "ReturnStatement", "CompoundStatement"}) =>
        LET d == entry.indent
            own == IF node.kind = "AssignmentStatement"
                   THEN visitAssignmentStatement(node, NewWriter(<<>>, d)).out
                   ELSE visitReturnStatement(node, NewWriter(<<>>, d)).out
        IN  IF node.kind = "CompoundStatement"
            THEN m_stringBuilder =
                    entry.out \o Flatten([i \in 1..Len(node.statements) |->
                                            TextOfStatement(node.statements[i], d)])
            ELSE m_stringBuilder = entry.out \o Spaces(4 * d) \o own \o <<";","\n">>  \* ";\n"

C5_Witness ==
    /\ Returned({"CompoundStatement"})
    /\ Len(node.statements) = 2
    /\ node.statements[1].kind = "CompoundStatement"
    /\ node.statements[2].kind = "AssignmentStatement"
    /\ m_stringBuilder # entry.out

\* The text of a parameter: type, space, name, then each attribute after a space.
TextOfParameter(p) ==
    TextOfType(p.type, 0) \o <<" ">> \o p.name  \* " "
    \o Flatten([i \in 1..Len(p.attributes) |-> <<" ">> \o TextOfAttribute(p.attributes[i])])  \* " "

\* C6: a function declaration appends each attribute followed by a space, the
\* return type, a space, the name, "(", the parameters with ", " between
\* consecutive ones only, ")\n", "{\n", the body statements one level deeper,
\* and "}" with a blank line.
C6_FunctionDecl ==
    Returned({"FunctionDecl"}) =>
        LET d == entry.indent
            attributes == [i \in 1..Len(node.attributes) |->
                            TextOfAttribute(node.attributes[i]) \o <<" ">>]  \* " "
            parameters == [i \in 1..Len(node.parameters) |->
                            TextOfParameter(node.parameters[i])]
            body == [i \in 1..Len(node.body.statements) |->
                            TextOfStatement(node.body.statements[i], d + 1)]
        IN  m_stringBuilder =
                entry.out \o Flatten(attributes)
                \o TextOfType(node.maybeReturnType, d) \o <<" ">> \o node.name  \* " "
                \o <<"(">> \o JoinWith(<<","," ">>, parameters) \o <<")","\n","{","\n">>  \* "(" ", " ")\n{\n"
                \o Flatten(body) \o <<"}","\n","\n">>  \* "}\n\n"

C6_Witness ==
    /\ Returned({"FunctionDecl"})
    /\ Len(node.attributes) = 2
    /\ Len(node.parameters) = 2
    /\ Len(node.parameters[2].attributes) = 2
    /\ Len(node.body.statements) = 2

\* C7: visiting an ArrayType without an element type or without an element
\* count ends in the failed assertion with nothing appended; with both, a visit
\* that returns has appended "array<", the element type, ", ", the count, ">".
C7_ArrayType ==
    Called({"ArrayType"}) =>
        IF node.maybeElementType = None \/ node.maybeElementCount = None
        THEN pc = "aborted" /\ m_stringBuilder = entry.out
        ELSE pc = "returned" =>
                m_stringBuilder =
                    entry.out \o <<"a","r","r","a","y","<">> \o TextOfType(node.maybeElementType, entry.indent)  \* "array<"
                    \o <<","," ">> \o TextOfExpression(node.maybeElementCount, entry.indent)  \* ", "
                    \o <<">">>  \* ">"

C7_Witness ==
    /\ pc = "aborted"
    /\ node.kind = "ArrayType"
    /\ node.maybeElementType # None
    /\ node.maybeElementCount = None

\* C8: for the module of a struct Vertex with the member position, of type
\* vec4<f32> and with builtin(position), followed by a function with the Vertex
\* stage attribute, return type Vertex and body "return v;", the text is the
\* struct block with the member line "vec<float, 4> position [[position]];",
\* a blank line, and the function block that begins with "[[vertex]]" and
\* whose body is four spaces, "return v;" and a newline.
C8_VertexModule ==
    \A name \in {<<"m","a","i","n">>, <<"v","s">>} :  \* "main" "vs"
        (Returned({"ShaderModule"})
            /\ node = ShaderModule(<<VertexStruct, VertexFunction(name)>>)) =>
        m_stringBuilder =
            entry.out
            \o <<"s","t","r","u","c","t"," ","V","e","r","t","e","x"," ","{","\n">>  \* "struct Vertex {\n"
            \o <<" "," "," "," ","v","e","c","<","f","l","o","a","t",","," ","4",">"," ","p","o","s","i","t","i","o","n"," ","[","[","p","o","s","i","t","i","o","n","]","]",";","\n">>  \* "    vec<float, 4> position [[position]];\n"
            \o <<"}",";","\n">>  \* "};\n"
            \o <<"\n">>  \* "\n"
            \o <<"[","[","v","e","r","t","e","x","]","]"," ","V","e","r","t","e","x"," ">> \o name \o <<"(",")","\n">>  \* "[[vertex]] Vertex " "()\n"
            \o <<"{","\n">>  \* "{\n"
            \o <<" "," "," "," ","r","e","t","u","r","n"," ","v",";","\n">>  \* "    return v;\n"
            \o <<"}","\n">>  \* "}\n"
            \o <<"\n">>  \* "\n"

C8_Witness ==
    /\ Returned({"ShaderModule"})
    /\ node = ShaderModule(<<VertexStruct, VertexFunction(<<"m","a","i","n">>)>>)  \* "main"
    /\ m_stringBuilder # entry.out

\* C9: a BuiltinAttribute appends "[[vertex_id]]" for vertex_index and
\* "[[position]]" for position; for any other name the visit ends in the failed
\* assertion and never returns.
C9_BuiltinAttribute ==
    Called({"BuiltinAttribute"}) =>
        IF node.name = <<"v","e","r","t","e","x","_","i","n","d","e","x">>  \* "vertex_index"
        THEN pc = "returned" /\ m_stringBuilder = entry.out \o <<"[","[","v","e","r","t","e","x","_","i","d","]","]">>  \* "[[vertex_id]]"
        ELSE IF node.name = <<"p","o","s","i","t","i","o","n">>  \* "position"
        THEN pc = "returned" /\ m_stringBuilder = entry.out \o <<"[","[","p","o","s","i","t","i","o","n","]","]">>  \* "[[position]]"
        ELSE pc = "aborted" /\ m_stringBuilder = entry.out

C9_Witness ==
    /\ pc = "aborted"
    /\ node.kind = "BuiltinAttribute"
    /\ node.name = <<"f","r","a","g","_","d","e","p","t","h">>  \* "frag_depth"

\* C10: the indentation level is balanced: a call that returns leaves m_indent
\* at its value on entry, so it is 0 after every top-level declaration and
\* after every module, and it is never negative.
C10_IndentBalanced ==
    /\ m_indent \in Nat
    /\ pc = "returned" => m_indent = entry.indent
    /\ Returned({"ShaderModule", "FunctionDecl", "StructDecl", "VariableDecl"}) =>
            m_indent = 0

C10_Witness ==
    /\ Returned({"ShaderModule"})
    /\ Len(node.declarations) = 2
    /\ node.declarations[1] = VertexStruct
    /\ node.declarations[2].kind = "FunctionDecl"
    /\ node.declarations[2].body.statements # <<>>
    /\ node.declarations[2].body.statements[1] = AssignArray

====
